---- MODULE Spec2Model ----
(***************************************************************************)
(* Model of sbi/utils/user_input_checks.py: the validation and             *)
(* normalisation of a user's prior, simulator, observation x and training  *)
(* pairs (theta, x).                                                       *)
(*                                                                         *)
(* The module is a set of synchronous functions without shared state.  The *)
(* state machine below is the call record of one caller: every action is   *)
(* one complete call of one function on inputs drawn from bounded sets, and*)
(* leaves in the state the inputs, the outcome (returned value or raised   *)
(* exception), the warnings emitted and the calls made to the user's       *)
(* objects.                                                                *)
(*                                                                         *)
(* Tensors are records of a shape (a sequence of positive sizes), a dtype, *)
(* and the flat row-major sequence of their values.  Values are integers;  *)
(* a value is representable in float32 iff it is even, so that the cast to *)
(* float32 is a lossy, idempotent conversion and not the identity.         *)
(***************************************************************************)
EXTENDS Integers, Sequences, FiniteSets, TLC

VARIABLES op, args, ret, warns, calls

vars == <<op, args, ret, warns, calls>>

(***************************** bounds ***************************************)
\* largest rank of an input tensor or of an expected event shape
MaxRank == 3
\* largest size of one axis
MaxDim == 2
\* largest number of priors in a sequence
MaxSeq == 2

(***************************** shapes and tensors ***************************)
Dims == 1..MaxDim

ShapesOfRank(r) == [1..r -> Dims]

Shapes == UNION {ShapesOfRank(r) : r \in 0..MaxRank}

RECURSIVE numel(_)
numel(shape) == IF shape = <<>> THEN 1 ELSE Head(shape) * numel(Tail(shape))

\* Optional[torch.Size]
None == [some |-> FALSE, v |-> <<>>]
Some(s) == [some |-> TRUE, v |-> s]

\* the outcome of a call: a returned value or a raised exception
Return(v) == [kind |-> "return", val |-> v]
Raise(e) == [kind |-> "raise", val |-> e]

\* what a caller sees of an outcome
Returned(r, v) == r.kind = "return" /\ r.val = v
Raised(r, e) == r.kind = "raise" /\ r.val = e

Dtypes == {"float32", "float64"}

\* the values of an input tensor of n elements: any value for float64, only
\* float32-representable (even) values for float32
InputData(dtype, n, seed) ==
    [i \in 1..n |-> IF dtype = "float32" THEN 2 * ((seed + i) % 2)
                                          ELSE (seed + i) % 4]

InputTensor(shape, dtype, seed) ==
    [shape |-> shape, dtype |-> dtype, data |-> InputData(dtype, numel(shape), seed)]

InputTensors ==
    {InputTensor(s, d, k) : s \in Shapes, d \in Dtypes, k \in 0..1}

\* torch.as_tensor(x, dtype=float32): shape kept, every value rounded to float32
to_float32(v, dtype) == IF dtype = "float32" THEN v ELSE (v \div 2) * 2

as_tensor_float32(x) ==
    [shape |-> x.shape, dtype |-> "float32",
     data |-> [i \in 1..Len(x.data) |-> to_float32(x.data[i], x.dtype)]]

\* Tensor.unsqueeze(0): a new leading axis of size 1, the values unchanged
unsqueeze0(x) == [x EXCEPT !.shape = <<1>> \o x.shape]

\* sbi.utils.torchutils.atleast_2d: a tensor of rank < 2 is reshaped to (1, -1)
atleast_2d(x) ==
    IF Len(x.shape) >= 2 THEN x ELSE [x EXCEPT !.shape = <<1, numel(x.shape)>>]

(***************************** process_x ***********************************)
\* the final shape assertion left out
process_x_no_assert(x, x_event_shape) ==
    LET x1 == atleast_2d(as_tensor_float32(x))
    IN  IF x_event_shape.some /\ Len(x_event_shape.v) > Len(x1.shape)
        THEN Raise("ValueError")
        ELSE Return(IF x_event_shape.some /\ Len(x_event_shape.v) = Len(x1.shape)
                    THEN unsqueeze0(x1) ELSE x1)

\* ValueError already when the ranks are equal, so no batch axis is ever added
process_x_ge(x, x_event_shape) ==
    LET x1 == atleast_2d(as_tensor_float32(x))
    IN  IF x_event_shape.some /\ Len(x_event_shape.v) >= Len(x1.shape)
        THEN Raise("ValueError")
        ELSE LET input_x_shape == x1.shape
             IN  IF x_event_shape.some /\ Tail(input_x_shape) # x_event_shape.v
                 THEN Raise("AssertionError")
                 ELSE Return(x1)

\* a batch axis added whenever the event shape is known and fits, batched or not
process_x_always_unsqueeze(x, x_event_shape) ==
    LET x1 == atleast_2d(as_tensor_float32(x))
    IN  IF x_event_shape.some /\ Len(x_event_shape.v) > Len(x1.shape)
        THEN Raise("ValueError")
        ELSE LET x2 == IF x_event_shape.some THEN unsqueeze0(x1) ELSE x1
                 input_x_shape == x2.shape
             IN  IF x_event_shape.some /\ Tail(input_x_shape) # x_event_shape.v
                 THEN Raise("AssertionError")
                 ELSE Return(x2)

process_x(x, x_event_shape) ==
    LET x1 == atleast_2d(as_tensor_float32(x))
    IN  IF x_event_shape.some /\ Len(x_event_shape.v) > Len(x1.shape)
        THEN Raise("ValueError")
        ELSE LET x2 == IF x_event_shape.some /\ Len(x_event_shape.v) = Len(x1.shape)
                       THEN unsqueeze0(x1) ELSE x1
                 input_x_shape == x2.shape
             IN  IF x_event_shape.some /\ Tail(input_x_shape) # x_event_shape.v
                 THEN Raise("AssertionError")
                 ELSE Return(x2)

(***************************** check_for_possibly_batched_x_shape **********)
\* `inferred_batch_shape, *inferred_data_shape = x_shape` needs at least one
\* element: on the empty shape the unpacking itself raises ValueError.
check_for_possibly_batched_x_shape(x_shape) ==
    LET x_ndim == Len(x_shape)
    IN  IF x_shape = <<>> THEN Raise("ValueError")
        ELSE LET inferred_batch_shape == Head(x_shape)
             IN  IF x_ndim > 1 /\ inferred_batch_shape > 1
                 THEN Raise("ValueError")
                 ELSE Return("None")

(***************************** validate_theta_and_x ************************)
\* A device is named by a string.  A tensor's own device always prints with
\* its index ("cuda:0"); a device argument may also be the bare type "cuda",
\* which names the current cuda device.
TensorDevices == {"cpu", "cuda:0", "cuda:1"}

DeviceArgs == {"cpu", "cuda", "cuda:0", "cuda:1"}

\* the device a device argument stands for, given the current cuda index
resolve(device, current_cuda) ==
    IF device = "cuda"
    THEN (IF current_cuda = 0 THEN "cuda:0" ELSE "cuda:1")
    ELSE device

\* Tensor.to(device): the tensor itself when it is already there, else a copy
\* (a new object, the same shape, dtype and values) on that device
to(t, device, current_cuda) ==
    IF t.device = resolve(device, current_cuda)
    THEN t
    ELSE [t EXCEPT !.device = resolve(device, current_cuda), !.id = t.id + 2]

\* the arguments theta and x: tensors (records with is_tensor) or anything else
NotATensor == [is_tensor |-> FALSE]

DataTensor(id, shape, dtype, device) ==
    [is_tensor |-> TRUE, id |-> id, shape |-> shape, dtype |-> dtype, device |-> device]

DataShapes == ShapesOfRank(0) \cup ShapesOfRank(1) \cup ShapesOfRank(2)

DataArgs(id) ==
    {NotATensor} \cup
    {DataTensor(id, s, d, dev) : s \in DataShapes, d \in Dtypes, dev \in TensorDevices}

\* the warning of lines 760-765 and 769-774
MoveWarning(name, t, data_device, training_device) ==
    [about |-> name, device |-> t.device,
     data_device |-> data_device, training_device |-> training_device]

\* the data moved to training_device instead of data_device
validate_theta_and_x_training(theta, x, data_device, training_device, current_cuda) ==
    IF ~theta.is_tensor \/ ~x.is_tensor THEN [out |-> Raise("AssertionError"), warns |-> <<>>]
    ELSE IF theta.shape = <<>> \/ x.shape = <<>>
    THEN [out |-> Raise("IndexError"), warns |-> <<>>]
    ELSE IF Head(theta.shape) # Head(x.shape) \/ theta.dtype # "float32" \/ x.dtype # "float32"
    THEN [out |-> Raise("AssertionError"), warns |-> <<>>]
    ELSE LET wx == IF x.device # data_device
                   THEN <<MoveWarning("x", x, data_device, training_device)>> ELSE <<>>
             wt == IF theta.device # data_device
                   THEN <<MoveWarning("theta", theta, data_device, training_device)>> ELSE <<>>
         IN  [out |-> Return(<<IF wt # <<>> THEN to(theta, training_device, current_cuda) ELSE theta,
                               IF wx # <<>> THEN to(x, training_device, current_cuda) ELSE x>>),
              warns |-> wx \o wt]

\* validate_theta_and_x: the outcome and the warnings emitted, in order
validate_theta_and_x(theta, x, data_device, training_device, current_cuda) ==
    IF ~theta.is_tensor THEN [out |-> Raise("AssertionError"), warns |-> <<>>]
    ELSE IF ~x.is_tensor THEN [out |-> Raise("AssertionError"), warns |-> <<>>]
    \* theta.shape[0], x.shape[0]: a rank-0 tensor has no leading dimension
    ELSE IF theta.shape = <<>> \/ x.shape = <<>>
    THEN [out |-> Raise("IndexError"), warns |-> <<>>]
    ELSE IF Head(theta.shape) # Head(x.shape)
    THEN [out |-> Raise("AssertionError"), warns |-> <<>>]
    ELSE IF theta.dtype # "float32" THEN [out |-> Raise("AssertionError"), warns |-> <<>>]
    ELSE IF x.dtype # "float32" THEN [out |-> Raise("AssertionError"), warns |-> <<>>]
    ELSE \* str(x.device) != str(data_device): the two strings are compared
         LET move_x == x.device # data_device
             move_theta == theta.device # data_device
             wx == IF move_x
                   THEN <<MoveWarning("x", x, data_device, training_device)>> ELSE <<>>
             wt == IF move_theta
                   THEN <<MoveWarning("theta", theta, data_device, training_device)>> ELSE <<>>
             x1 == IF move_x THEN to(x, data_device, current_cuda) ELSE x
             theta1 == IF move_theta THEN to(theta, data_device, current_cuda) ELSE theta
         IN  [out |-> Return(<<theta1, x1>>), warns |-> wx \o wt]

(***************************** simulators ************************************)
\* What a simulator returns is a tensor or some other object (a list).
SimTensor(shape, data) ==
    [is_tensor |-> TRUE, shape |-> shape, dtype |-> "float32", data |-> data]

NotTensor == [is_tensor |-> FALSE]

\* a numpy array: it has a shape and is not a Tensor
NdArray(shape, data) ==
    [is_tensor |-> FALSE, shape |-> shape, dtype |-> "float32", data |-> data]

\* hasattr(value, "shape")
HasShape(value) == "shape" \in DOMAIN value

RECURSIVE SumSeq(_)
SumSeq(q) == IF q = <<>> THEN 0 ELSE Head(q) + SumSeq(Tail(q))

\* The user's simulators, by what they do with their argument theta:
\*   elementwise  lambda theta: theta + 2             (any rank, batched)
\*   sum          lambda theta: theta.sum()           (a scalar for any input)
\*   row_only     accepts one parameter vector (rank 1) and raises otherwise
\*   fixed_pair   returns a constant tensor of shape (2, 1)
\*   unsqueeze    lambda theta: theta.unsqueeze(0)
\*   list         returns a list, not a tensor
\*   raises       raises for every input
\*   ragged       returns a vector whose length depends on the values of theta
\* and, for check_sbi_inputs only,
\*   numpy        lambda theta: numpy.asarray(theta)   (an ndarray, not a tensor)
Simulators ==
    {"elementwise", "sum", "row_only", "fixed_pair", "unsqueeze", "list", "raises",
     "ragged"}

simulate(simulator, theta) ==
    CASE simulator = "elementwise" ->
            Return(SimTensor(theta.shape, [i \in 1..Len(theta.data) |-> theta.data[i] + 2]))
      [] simulator = "sum" -> Return(SimTensor(<<>>, <<SumSeq(theta.data)>>))
      [] simulator = "row_only" ->
            IF Len(theta.shape) = 1 THEN Return(SimTensor(theta.shape, theta.data))
            ELSE Raise("ValueError")
      [] simulator = "fixed_pair" -> Return(SimTensor(<<2, 1>>, <<0, 0>>))
      [] simulator = "unsqueeze" -> Return(SimTensor(<<1>> \o theta.shape, theta.data))
      [] simulator = "list" -> Return(NotTensor)
      [] simulator = "raises" -> Raise("RuntimeError")
      [] simulator = "numpy" -> Return(NdArray(theta.shape, theta.data))
      [] simulator = "ragged" ->
            IF (theta.data[1] \div 2) % 2 = 0 THEN Return(SimTensor(<<1>>, <<0>>))
            ELSE Return(SimTensor(<<2>>, <<0, 0>>))

\* prior.sample((batch_size,)) of a distribution whose single sample has shape
\* `sample_shape`: a float32 tensor of shape (batch_size,) + sample_shape
prior_sample(prior, batch_size) ==
    SimTensor(<<batch_size>> \o prior.sample_shape,
              InputData("float32", batch_size * numel(prior.sample_shape), prior.seed))

Priors == {[sample_shape |-> s, seed |-> k] :
            s \in ShapesOfRank(0) \cup ShapesOfRank(1), k \in 0..1}

\* the callable ensure_batched_simulator returns: the simulator itself, or
\* get_batch_loop_simulator(simulator)
Itself(simulator) == [wrapper |-> "none", simulator |-> simulator]
get_batch_loop_simulator(simulator) ==
    [wrapper |-> "batch_loop_simulator", simulator |-> simulator]

\* the leading dimension of the probe's output is not checked
ensure_batched_simulator_rank_only(simulator, prior) ==
    LET batch_size == 2
        probe == prior_sample(prior, batch_size)
        output == simulate(simulator, probe)
        is_batched_simulator ==
            /\ output.kind = "return"
            /\ output.val.is_tensor
            /\ Len(output.val.shape) > 1
    IN  [out |-> Return(IF is_batched_simulator THEN Itself(simulator)
                        ELSE get_batch_loop_simulator(simulator)),
         calls |-> <<probe>>]

\* ensure_batched_simulator: the outcome and the calls made of the simulator.
\* Every exception of the probe (raised by the simulator, the AttributeError
\* of an output without .shape, a failed assertion) is caught at line 573.
ensure_batched_simulator(simulator, prior) ==
    LET batch_size == 2
        probe == prior_sample(prior, batch_size)
        output == simulate(simulator, probe)
        is_batched_simulator ==
            /\ output.kind = "return"
            /\ output.val.is_tensor
            /\ Len(output.val.shape) > 1
            /\ Head(output.val.shape) = batch_size
    IN  [out |-> Return(IF is_batched_simulator THEN Itself(simulator)
                        ELSE get_batch_loop_simulator(simulator)),
         calls |-> <<probe>>]

\* theta[i]: the i-th slice of a tensor along its leading axis
Row(theta, i) ==
    LET m == numel(Tail(theta.shape))
    IN  SimTensor(Tail(theta.shape), SubSeq(theta.data, (i - 1) * m + 1, i * m))

RECURSIVE ConcatData(_)
ConcatData(xs) == IF xs = <<>> THEN <<>> ELSE Head(xs).data \o ConcatData(Tail(xs))

\* torch.stack(xs): a non-empty list of tensors of one shape, along a new
\* leading axis
stack(xs) ==
    IF xs = <<>> THEN Raise("RuntimeError")
    ELSE IF \E i \in 1..Len(xs) : ~xs[i].is_tensor THEN Raise("TypeError")
    ELSE IF \E i \in 1..Len(xs) : xs[i].shape # xs[1].shape THEN Raise("RuntimeError")
    ELSE Return(SimTensor(<<Len(xs)>> \o xs[1].shape, ConcatData(xs)))

\* batch_loop_simulator(theta): list(map(simulator, theta)) calls the simulator
\* on the rows in order and stops at the first call that raises
batch_loop_simulator(simulator, theta) ==
    IF ~(Len(theta.shape) > 1) THEN [out |-> Raise("AssertionError"), calls |-> <<>>]
    ELSE LET n == Head(theta.shape)
             outs == [i \in 1..n |-> simulate(simulator, Row(theta, i))]
             failing == {i \in 1..n : outs[i].kind = "raise"}
             last == IF failing = {} THEN n
                     ELSE CHOOSE i \in failing : \A j \in failing : i <= j
         IN  [out |-> IF failing = {} THEN stack([i \in 1..n |-> outs[i].val])
                      ELSE outs[last],
              calls |-> [i \in 1..last |-> Row(theta, i)]]

\* a call of the callable that ensure_batched_simulator returned
call_simulator(callable, theta) ==
    IF callable.wrapper = "batch_loop_simulator"
    THEN batch_loop_simulator(callable.simulator, theta)
    ELSE [out |-> simulate(callable.simulator, theta), calls |-> <<theta>>]

SimInputs == {SimTensor(s, InputData("float32", numel(s), k)) : s \in Shapes, k \in 0..1}

(***************************** priors ****************************************)
\* A user's prior is a torch Distribution, a custom object with sample and
\* log_prob methods, a scipy.stats object, or a sequence of these.
\*
\* A Distribution has a batch_shape, an event_shape and a dtype; sample(shape)
\* has shape  shape + batch_shape + event_shape  and log_prob(value) has the
\* shape of value without the event dimensions.  A Uniform has an empty
\* event_shape and bounds low, high of shape batch_shape.
Dist(class, batch_shape, event_shape, dtype, low, high) ==
    [kind |-> "distribution", class |-> class, batch_shape |-> batch_shape,
     event_shape |-> event_shape, dtype |-> dtype, low |-> low, high |-> high,
     wrappers |-> <<>>]

UniformPrior(batch_shape, dtype, seed) ==
    Dist("Uniform", batch_shape, <<>>, dtype,
         InputData(dtype, numel(batch_shape), seed),
         [i \in 1..numel(batch_shape) |-> InputData(dtype, numel(batch_shape), seed)[i] + 4])

\* any other Distribution class (Normal, Gamma, MultivariateNormal, ...)
OtherPrior(batch_shape, event_shape, dtype) ==
    Dist("Other", batch_shape, event_shape, dtype, <<>>, <<>>)

\* A custom prior: sample(shape) has shape  shape + sample_shape  and log_prob
\* returns one value per sample, unless the object has one of these defects:
\*   no_sample, no_log_prob          the method is missing
\*   sample_type_error               sample rejects a tuple argument
\*   sample_error, log_prob_error    the method raises some other exception
\*   log_prob_type_error             log_prob raises TypeError
\*   unbatched_sample                sample ignores its argument
\*   log_prob_pair                   log_prob returns two values, whatever it gets
\* `returns` says what sample and log_prob return: tensors, ndarrays, lists,
\* or a tensor and an ndarray.
CustomDefects ==
    {"none", "no_sample", "no_log_prob", "sample_type_error", "sample_error",
     "log_prob_type_error", "log_prob_error", "unbatched_sample", "log_prob_pair"}

CustomReturns == {"tensor", "ndarray", "list", "tensor_ndarray", "ndarray_tensor"}

CustomPrior(defect, returns, sample_shape, dtype) ==
    [kind |-> "custom", defect |-> defect, returns |-> returns,
     sample_shape |-> sample_shape, dtype |-> dtype]

ScipyPrior == [kind |-> "scipy"]

\* the shape of prior.sample(shape)
sample_shape_of(prior, shape) ==
    IF prior.kind = "distribution" THEN shape \o prior.batch_shape \o prior.event_shape
    ELSE IF prior.defect = "unbatched_sample" THEN prior.sample_shape
    ELSE shape \o prior.sample_shape

\* the shape of prior.log_prob(theta) for theta of shape theta_shape
log_prob_shape_of(prior, theta_shape) ==
    IF prior.kind = "distribution"
    THEN LET lp == SubSeq(theta_shape, 1, Len(theta_shape) - Len(prior.event_shape))
         IN  IF \E i \in 1..Len(prior.wrappers) : prior.wrappers[i] = "OneDimPriorWrapper"
             THEN SubSeq(lp, 1, Len(lp) - 1)
             ELSE lp
    ELSE IF prior.defect = "log_prob_pair" THEN <<2>>
    ELSE SubSeq(theta_shape, 1, Len(theta_shape) - Len(prior.sample_shape))

\* the dtype of prior.sample()
sample_dtype_of(prior) ==
    IF prior.kind = "distribution"
    THEN (IF \E i \in 1..Len(prior.wrappers) : prior.wrappers[i] = "PytorchReturnTypeWrapper"
          THEN "float32" ELSE prior.dtype)
    ELSE prior.dtype

\* sbi.utils.torchutils.BoxUniform(low, high): the Uniform with its last batch
\* dimension reinterpreted as the event dimension, the bounds kept
BoxUniform(prior) ==
    [prior EXCEPT !.class = "BoxUniform",
                  !.batch_shape = SubSeq(prior.batch_shape, 1, Len(prior.batch_shape) - 1),
                  !.event_shape = <<prior.batch_shape[Len(prior.batch_shape)]>>]

\* PytorchReturnTypeWrapper(prior, return_type=float32), OneDimPriorWrapper(prior)
Wrap(prior, wrapper) == [prior EXCEPT !.wrappers = Append(prior.wrappers, wrapper)]

\* CustomPriorWrapper(custom_prior, event_shape): a Distribution with an empty
\* batch_shape whose samples are the custom prior's, as float32 tensors
CustomPriorWrapper(custom_prior, event_shape) ==
    [kind |-> "distribution", class |-> "CustomPriorWrapper", batch_shape |-> <<>>,
     event_shape |-> event_shape, dtype |-> "float32", low |-> <<>>, high |-> <<>>,
     wrappers |-> <<>>]

RECURSIVE SumNumel(_)
SumNumel(dists) ==
    IF dists = <<>> THEN 0
    ELSE numel(sample_shape_of(Head(dists), <<>>)) + SumNumel(Tail(dists))

\* MultipleIndependent(dists): the joint distribution of independent
\* components, its event the concatenation of one sample of each
MultipleIndependent(dists) ==
    [kind |-> "distribution", class |-> "MultipleIndependent", batch_shape |-> <<>>,
     event_shape |-> <<SumNumel(dists)>>,
     dtype |-> IF \A i \in 1..Len(dists) : sample_dtype_of(dists[i]) = "float32"
               THEN "float32" ELSE "float64",
     low |-> <<>>, high |-> <<>>, wrappers |-> <<>>]

\* The checks return "ok" or the exception they raise.

\* a TypeError of sample falls to the catch-all
check_prior_attributes_sample_catch_all(prior) ==
    CASE prior.defect = "no_sample" -> "AttributeError:sample"
      [] prior.defect \in {"sample_type_error", "sample_error"} -> "ValueError:sample"
      [] prior.defect = "no_log_prob" -> "AttributeError:log_prob"
      [] prior.defect \in {"log_prob_type_error", "log_prob_error"} -> "ValueError:log_prob"
      [] OTHER -> "ok"

\* lines 369-386: sample((2,)) raising AttributeError, TypeError, anything
\* else; lines 387-397: log_prob(theta) raising AttributeError, anything else
check_prior_attributes(prior) ==
    CASE prior.defect = "no_sample" -> "AttributeError:sample"
      [] prior.defect = "sample_type_error" -> "TypeError:sample"
      [] prior.defect = "sample_error" -> "ValueError:sample"
      [] prior.defect = "no_log_prob" -> "AttributeError:log_prob"
      [] prior.defect \in {"log_prob_type_error", "log_prob_error"} -> "ValueError:log_prob"
      [] OTHER -> "ok"

\* a list has no .shape (line 420); len() of a 0-d log_prob is a TypeError
check_prior_batch_behavior(prior) ==
    LET num_samples == 1
        theta == sample_shape_of(prior, <<num_samples>>)
        log_probs == log_prob_shape_of(prior, theta)
    IN  IF prior.kind = "custom" /\ prior.returns = "list" THEN "AttributeError:shape"
        ELSE IF ~(Len(theta) >= 2) THEN "AssertionError:batch_behavior"
        ELSE IF log_probs = <<>> THEN "TypeError:len"
        ELSE IF Head(theta) # num_samples THEN "AssertionError:batch_behavior"
        ELSE IF Head(log_probs) # num_samples THEN "AssertionError:batch_behavior"
        ELSE "ok"

\* the batch multiplicity that is rejected is 2, not 1
check_prior_batch_dims_above_two(prior) ==
    IF numel(prior.batch_shape) > 2 THEN "ValueError:batch_shape" ELSE "ok"

check_prior_batch_dims(prior) ==
    IF numel(prior.batch_shape) > 1 THEN "ValueError:batch_shape" ELSE "ok"

check_prior_return_type(prior) ==
    IF sample_dtype_of(prior) = "float32" THEN "ok" ELSE "AssertionError:return_type"

\* The record process_prior returns, (prior, theta_numel, prior_returns_numpy),
\* with the warnings emitted on the way.
Processed(prior, theta_numel, prior_returns_numpy, warnings) ==
    [out |-> Return([prior |-> prior, theta_numel |-> theta_numel,
                     prior_returns_numpy |-> prior_returns_numpy]),
     warns |-> warnings]

Failed(exception, warnings) == [out |-> Raise(exception), warns |-> warnings]

\* the 1D Uniform is left as it is
cast_1d_uniform_never(prior) == [prior |-> prior, warns |-> <<>>]

\* lines 223-228: a Uniform with batch multiplicity 1 is recast as a BoxUniform
\* with its bounds, and a warning is emitted
cast_1d_uniform(prior) ==
    IF prior.class = "Uniform" /\ numel(prior.batch_shape) = 1
    THEN [prior |-> BoxUniform(prior),
          warns |-> <<"Casting 1D Uniform prior to BoxUniform">>]
    ELSE [prior |-> prior, warns |-> <<>>]

\* the return type is checked before the dtype wrapper is applied
adapt_pytorch_prior_check_before_wrap(prior) ==
    LET p1 == cast_1d_uniform(prior).prior
        w == cast_1d_uniform(prior).warns
    IN  IF check_prior_batch_behavior(p1) # "ok"
        THEN Failed(check_prior_batch_behavior(p1), w)
        ELSE IF check_prior_batch_dims(p1) # "ok"
        THEN Failed(check_prior_batch_dims(p1), w)
        ELSE IF check_prior_return_type(p1) # "ok"
        THEN Failed(check_prior_return_type(p1), w)
        ELSE LET p2 == IF sample_dtype_of(p1) # "float32"
                       THEN Wrap(p1, "PytorchReturnTypeWrapper") ELSE p1
                 p3 == IF log_prob_shape_of(p2, sample_shape_of(p2, <<10>>))
                          = <<10, 1>>
                       THEN Wrap(p2, "OneDimPriorWrapper") ELSE p2
             IN  Processed(p3, numel(sample_shape_of(p3, <<>>)), FALSE, w)

\* lines 223-248: process_pytorch_prior once the prior is known not to be scalar
adapt_pytorch_prior(prior) ==
    LET p1 == cast_1d_uniform(prior).prior
        w == cast_1d_uniform(prior).warns
    IN  IF check_prior_batch_behavior(p1) # "ok"
        THEN Failed(check_prior_batch_behavior(p1), w)
        ELSE IF check_prior_batch_dims(p1) # "ok"
        THEN Failed(check_prior_batch_dims(p1), w)
        ELSE LET p2 == IF sample_dtype_of(p1) # "float32"
                       THEN Wrap(p1, "PytorchReturnTypeWrapper") ELSE p1
             IN  IF check_prior_return_type(p2) # "ok"
                 THEN Failed(check_prior_return_type(p2), w)
                 ELSE LET p3 == IF log_prob_shape_of(p2, sample_shape_of(p2, <<10>>))
                                   = <<10, 1>>
                                THEN Wrap(p2, "OneDimPriorWrapper") ELSE p2
                      IN  Processed(p3, numel(sample_shape_of(p3, <<>>)), FALSE, w)

\* the batch behaviour is checked before the scalar prior is rejected
process_pytorch_prior_batch_check_first(prior) ==
    IF check_prior_batch_behavior(prior) # "ok"
    THEN Failed(check_prior_batch_behavior(prior), <<>>)
    ELSE IF Len(sample_shape_of(prior, <<>>)) = 0
    THEN Failed("ValueError:scalar_prior", <<>>)
    ELSE adapt_pytorch_prior(prior)

process_pytorch_prior(prior) ==
    \* Reject unwrapped scalar priors.
    IF Len(sample_shape_of(prior, <<>>)) = 0 THEN Failed("ValueError:scalar_prior", <<>>)
    ELSE adapt_pytorch_prior(prior)

\* maybe_wrap_prior_as_pytorch: the wrapped prior and is_prior_numpy, or the
\* TypeError of line 190
maybe_wrap_prior_as_pytorch(prior) ==
    LET theta == sample_shape_of(prior, <<1>>)
    IN  IF prior.returns = "tensor"
        THEN [ok |-> TRUE, prior |-> CustomPriorWrapper(prior, <<numel(theta)>>),
              is_prior_numpy |-> FALSE]
        ELSE IF prior.returns = "ndarray"
        THEN [ok |-> TRUE, prior |-> CustomPriorWrapper(prior, <<numel(theta)>>),
              is_prior_numpy |-> TRUE]
        ELSE [ok |-> FALSE, prior |-> prior, is_prior_numpy |-> FALSE]

process_custom_prior(prior) ==
    IF check_prior_attributes(prior) # "ok" THEN Failed(check_prior_attributes(prior), <<>>)
    ELSE IF check_prior_batch_behavior(prior) # "ok"
    THEN Failed(check_prior_batch_behavior(prior), <<>>)
    ELSE LET wrapped == maybe_wrap_prior_as_pytorch(prior)
         IN  IF ~wrapped.ok THEN Failed("TypeError:return_type", <<>>)
             ELSE IF check_prior_return_type(wrapped.prior) # "ok"
             THEN Failed(check_prior_return_type(wrapped.prior), <<>>)
             ELSE Processed(wrapped.prior, numel(sample_shape_of(prior, <<>>)),
                            wrapped.is_prior_numpy, <<>>)

\* process_prior on a prior that is not a sequence (lines 101-113)
process_one_prior(prior) ==
    IF prior.kind = "distribution" THEN process_pytorch_prior(prior)
    ELSE IF prior.kind = "scipy" THEN Failed("NotImplementedError:scipy", <<>>)
    ELSE process_custom_prior(prior)

RECURSIVE ConcatWarns(_)
ConcatWarns(rs) == IF rs = <<>> THEN <<>> ELSE Head(rs).warns \o ConcatWarns(Tail(rs))

\* the joint prior returns numpy if one of its components does
process_prior_sequence_component_flags(priors) ==
    LET n == Len(priors)
        rs == [i \in 1..n |-> process_one_prior(priors[i])]
        failing == {i \in 1..n : rs[i].out.kind = "raise"}
        last == IF failing = {} THEN n ELSE CHOOSE i \in failing : \A j \in failing : i <= j
        w == <<"Prior was provided as a sequence">> \o ConcatWarns(SubSeq(rs, 1, last))
        processed == [i \in 1..n |-> i]
    IN  IF failing # {}
        THEN [out |-> rs[last].out, warns |-> w, calls |-> SubSeq(processed, 1, last)]
        ELSE LET joint == process_pytorch_prior(
                              MultipleIndependent([i \in 1..n |-> rs[i].out.val.prior]))
                 is_prior_numpy == \E i \in 1..n : rs[i].out.val.prior_returns_numpy
             IN  [out |-> IF joint.out.kind = "raise" THEN joint.out
                          ELSE Return([joint.out.val EXCEPT
                                           !.prior_returns_numpy = is_prior_numpy]),
                  warns |-> w \o joint.warns, calls |-> processed]

\* the components processed last to first
process_prior_sequence_reversed(priors) ==
    LET n == Len(priors)
        rs == [i \in 1..n |-> process_one_prior(priors[n + 1 - i])]
        failing == {i \in 1..n : rs[i].out.kind = "raise"}
        last == IF failing = {} THEN n ELSE CHOOSE i \in failing : \A j \in failing : i <= j
        w == <<"Prior was provided as a sequence">> \o ConcatWarns(SubSeq(rs, 1, last))
        processed == [i \in 1..n |-> n + 1 - i]
    IN  IF failing # {}
        THEN [out |-> rs[last].out, warns |-> w, calls |-> SubSeq(processed, 1, last)]
        ELSE LET joint == process_pytorch_prior(
                              MultipleIndependent([i \in 1..n |-> rs[i].out.val.prior]))
             IN  [out |-> joint.out, warns |-> w \o joint.warns, calls |-> processed]

\* process_prior on a sequence (lines 90-99): the components are processed in
\* order, the first exception ends the call; `calls` lists the components
\* whose processing was started
process_prior_sequence(priors) ==
    LET n == Len(priors)
        rs == [i \in 1..n |-> process_one_prior(priors[i])]
        failing == {i \in 1..n : rs[i].out.kind = "raise"}
        last == IF failing = {} THEN n ELSE CHOOSE i \in failing : \A j \in failing : i <= j
        w == <<"Prior was provided as a sequence">> \o ConcatWarns(SubSeq(rs, 1, last))
        processed == [i \in 1..n |-> i]
    IN  IF failing # {}
        THEN [out |-> rs[last].out, warns |-> w, calls |-> SubSeq(processed, 1, last)]
        ELSE LET joint == process_pytorch_prior(
                              MultipleIndependent([i \in 1..n |-> rs[i].out.val.prior]))
             IN  [out |-> joint.out, warns |-> w \o joint.warns, calls |-> processed]

\* the priors a user passes
PriorBatchShapes == ShapesOfRank(0) \cup ShapesOfRank(1) \cup ShapesOfRank(2)

PriorEventShapes == ShapesOfRank(0) \cup ShapesOfRank(1)

DistributionPriors ==
    {UniformPrior(b, d, k) : b \in PriorBatchShapes, d \in Dtypes, k \in 0..1}
    \cup {OtherPrior(b, e, d) : b \in PriorEventShapes, e \in PriorEventShapes, d \in Dtypes}

CustomPriors ==
    {CustomPrior(f, r, e, d) :
        f \in CustomDefects, r \in CustomReturns, e \in PriorBatchShapes, d \in Dtypes}

\* the components of the sequences
ComponentPriors ==
    {UniformPrior(<<>>, "float32", 0), UniformPrior(<<1>>, "float32", 0),
     UniformPrior(<<1>>, "float64", 1), UniformPrior(<<2>>, "float32", 0),
     OtherPrior(<<>>, <<>>, "float32"), OtherPrior(<<>>, <<2>>, "float32"),
     OtherPrior(<<1>>, <<>>, "float64"), OtherPrior(<<1>>, <<2>>, "float32"),
     CustomPrior("none", "tensor", <<2>>, "float32"),
     CustomPrior("none", "ndarray", <<1>>, "float64"),
     CustomPrior("none", "tensor", <<>>, "float32"),
     CustomPrior("no_log_prob", "tensor", <<1>>, "float32"),
     ScipyPrior}

PriorSequences == UNION {[1..n -> ComponentPriors] : n \in 1..MaxSeq}

(***************************** check_sbi_inputs ******************************)
\* The prior handed to check_sbi_inputs: what sample(shape) returns (a tensor,
\* an ndarray or a list), whether it honours the requested batch shape, and
\* whether its support can be checked.
SbiReturns == {"tensor", "ndarray", "list"}

SbiPriors ==
    {[sample_shape |-> s, seed |-> k, returns |-> r, batched |-> b, support |-> u] :
        s \in ShapesOfRank(0) \cup ShapesOfRank(1), k \in 0..1, r \in SbiReturns,
        b \in BOOLEAN, u \in {"implemented", "not_implemented"}}

SbiSimulators == Simulators \cup {"numpy"}

\* prior.sample(torch.Size((batch_size,)))
sbi_prior_sample(prior, batch_size) ==
    LET t == IF prior.batched THEN prior_sample(prior, batch_size)
             ELSE SimTensor(prior.sample_shape,
                            InputData("float32", numel(prior.sample_shape), prior.seed))
    IN  CASE prior.returns = "tensor" -> t
          [] prior.returns = "ndarray" -> NdArray(t.shape, t.data)
          [] prior.returns = "list" -> NotTensor

\* sbi.utils.sbiutils.within_support(prior, samples): raises
\* NotImplementedError when the prior neither has a support property nor
\* evaluates log_prob outside its support
within_support(prior, samples) ==
    IF prior.support = "not_implemented" THEN "NotImplementedError" ELSE "ok"

check_prior_support(prior) ==
    IF within_support(prior, sbi_prior_sample(prior, 1)) = "NotImplementedError"
    THEN "NotImplementedError"
    ELSE "ok"

Called(fn, arg) == [fn |-> fn, arg |-> arg]

\* first, *rest = value.shape: "ok" or the exception of the statement
unpack_shape(value) ==
    IF ~HasShape(value) THEN "AttributeError:shape"
    ELSE IF value.shape = <<>> THEN "ValueError:unpack"
    ELSE "ok"

\* check_sbi_inputs: the outcome and the calls made, in order.  The shapes of
\* theta (line 694) and of the simulation (line 696) are taken and unpacked
\* before the isinstance assertions of lines 698-699.
check_sbi_inputs(simulator, prior) ==
    LET num_prior_samples == 1
        theta == sbi_prior_sample(prior, num_prior_samples)
        simulation == simulate(simulator, theta)
        support == <<Called("check_prior_support", <<>>)>>
        sampled == support \o <<Called("prior.sample", <<num_prior_samples>>)>>
        simulated == sampled \o <<Called("simulator", theta)>>
    IN  IF check_prior_support(prior) # "ok"
        THEN [out |-> Raise(check_prior_support(prior)), calls |-> support]
        ELSE IF unpack_shape(theta) # "ok"
        THEN [out |-> Raise(unpack_shape(theta)), calls |-> sampled]
        ELSE IF simulation.kind = "raise"
        THEN [out |-> simulation, calls |-> simulated]
        ELSE IF unpack_shape(simulation.val) # "ok"
        THEN [out |-> Raise(unpack_shape(simulation.val)), calls |-> simulated]
        ELSE IF ~theta.is_tensor
        THEN [out |-> Raise("AssertionError"), calls |-> simulated]
        ELSE IF ~simulation.val.is_tensor
        THEN [out |-> Raise("AssertionError"), calls |-> simulated]
        ELSE IF ~(Head(theta.shape) = num_prior_samples)
        THEN [out |-> Raise("AssertionError"), calls |-> simulated]
        ELSE IF ~(Head(simulation.val.shape) = num_prior_samples)
        THEN [out |-> Raise("AssertionError"), calls |-> simulated]
        ELSE [out |-> Return("None"), calls |-> simulated]

(***************************** test_posterior_net_for_multi_d_x **************)
\* An exception: its class, its message, and whether it was raised `from`
\* another exception.  A message is a text and the number it names, if any.
Message(text, dimensions) == [text |-> text, dimensions |-> dimensions]

Exception(class, message, chained) ==
    [class |-> class, message |-> message, chained |-> chained]

\* The nets, by what net.log_prob does: the net has no such method, the call
\* returns, or it raises a RuntimeError or an exception of another class.
Nets == {"no_log_prob", "succeeds", "RuntimeError", "ValueError"}

\* the exception a failing net.log_prob raises
log_prob_error(net) == Exception(net, Message("size mismatch", 0), FALSE)

\* theta[:, :2] needs two dimensions and x[:2] one
slicing_error == Exception("IndexError", Message("too many indices", 0), FALSE)

\* lines 790-808: the outcome of the try statement and its handler
test_posterior_net_for_multi_d_x(net, theta, x) ==
    IF net = "no_log_prob" THEN Return("None")
    ELSE IF Len(theta.shape) < 2 \/ Len(x.shape) < 1 THEN Raise(slicing_error)
    ELSE IF net = "succeeds" THEN Return("None")
    ELSE IF net # "RuntimeError" THEN Raise(log_prob_error(net))
    ELSE LET ndims == Len(x.shape)
             message == IF ndims > 2 THEN Message("Debug hint", ndims - 1)
                        ELSE Message("", 0)
         IN  Raise(Exception("RuntimeError", message, TRUE))

(***************************** the calls ***********************************)
\* what the caller of a check sees: None, or the exception
CheckOutcome(check) == IF check = "ok" THEN Return("None") ELSE Raise(check)

NoArgs == [none |-> TRUE]

Init ==
    /\ op = "none"
    /\ args = NoArgs
    /\ ret = Return("None")
    /\ warns = <<>>
    /\ calls = <<>>

\* process_x(x, x_event_shape) on a user's observation
CallProcessX ==
    /\ op = "none"
    /\ \E x \in InputTensors, es \in {None} \cup {Some(s) : s \in Shapes} :
        /\ op' = "process_x"
        /\ args' = [x |-> x, x_event_shape |-> es]
        /\ ret' = process_x(x, es)
        /\ warns' = <<>>
        /\ calls' = <<>>

\* process_x applied to the tensor the previous process_x returned, with the
\* same x_event_shape
CallProcessXAgain ==
    /\ op = "process_x"
    /\ ret.kind = "return"
    /\ op' = "process_x_again"
    /\ args' = [x |-> ret.val, x_event_shape |-> args.x_event_shape]
    /\ ret' = process_x(ret.val, args.x_event_shape)
    /\ warns' = <<>>
    /\ calls' = <<>>

CallCheckBatchedXShape ==
    /\ op = "none"
    /\ \E x_shape \in Shapes :
        /\ op' = "check_for_possibly_batched_x_shape"
        /\ args' = [x_shape |-> x_shape]
        /\ ret' = check_for_possibly_batched_x_shape(x_shape)
        /\ warns' = <<>>
        /\ calls' = <<>>

CallValidateThetaAndX ==
    /\ op = "none"
    /\ \E theta \in DataArgs(1), x \in DataArgs(2),
          data_device \in DeviceArgs, training_device \in {"cpu", "cuda:1"},
          current_cuda \in {0, 1} :
        LET r == validate_theta_and_x(theta, x, data_device, training_device, current_cuda)
        IN  /\ op' = "validate_theta_and_x"
            /\ args' = [theta |-> theta, x |-> x, data_device |-> data_device,
                        training_device |-> training_device,
                        current_cuda |-> current_cuda]
            /\ ret' = r.out
            /\ warns' = r.warns
            /\ calls' = <<>>

CallEnsureBatchedSimulator ==
    /\ op = "none"
    /\ \E simulator \in Simulators, prior \in Priors :
        LET r == ensure_batched_simulator(simulator, prior)
        IN  /\ op' = "ensure_batched_simulator"
            /\ args' = [simulator |-> simulator, prior |-> prior]
            /\ ret' = r.out
            /\ warns' = <<>>
            /\ calls' = r.calls

\* the callable that ensure_batched_simulator returned is called on theta
CallReturnedSimulator ==
    /\ op = "ensure_batched_simulator"
    /\ ret.kind = "return"
    /\ \E theta \in SimInputs :
        LET r == call_simulator(ret.val, theta)
        IN  /\ op' = "call_simulator"
            /\ args' = [callable |-> ret.val, theta |-> theta]
            /\ ret' = r.out
            /\ warns' = <<>>
            /\ calls' = r.calls

CallProcessPrior ==
    /\ op = "none"
    /\ \E prior \in DistributionPriors \cup CustomPriors \cup {ScipyPrior} :
        LET r == process_one_prior(prior)
        IN  /\ op' = "process_prior"
            /\ args' = [prior |-> prior]
            /\ ret' = r.out
            /\ warns' = r.warns
            /\ calls' = <<>>

CallProcessPriorSequence ==
    /\ op = "none"
    /\ \E priors \in PriorSequences :
        LET r == process_prior_sequence(priors)
        IN  /\ op' = "process_prior_sequence"
            /\ args' = [prior |-> priors]
            /\ ret' = r.out
            /\ warns' = r.warns
            /\ calls' = r.calls

\* check_prior_batch_dims(prior) on a torch Distribution
CallCheckPriorBatchDims ==
    /\ op = "none"
    /\ \E prior \in DistributionPriors :
        /\ op' = "check_prior_batch_dims"
        /\ args' = [prior |-> prior]
        /\ ret' = CheckOutcome(check_prior_batch_dims(prior))
        /\ warns' = <<>>
        /\ calls' = <<>>

\* check_prior_attributes(prior) on a custom prior
CallCheckPriorAttributes ==
    /\ op = "none"
    /\ \E prior \in CustomPriors :
        /\ op' = "check_prior_attributes"
        /\ args' = [prior |-> prior]
        /\ ret' = CheckOutcome(check_prior_attributes(prior))
        /\ warns' = <<>>
        /\ calls' = <<>>

CallCheckSbiInputs ==
    /\ op = "none"
    /\ \E simulator \in SbiSimulators, prior \in SbiPriors :
        LET r == check_sbi_inputs(simulator, prior)
        IN  /\ op' = "check_sbi_inputs"
            /\ args' = [simulator |-> simulator, prior |-> prior]
            /\ ret' = r.out
            /\ warns' = <<>>
            /\ calls' = r.calls

CallTestPosteriorNet ==
    /\ op = "none"
    /\ \E net \in Nets, theta_shape \in ShapesOfRank(1) \cup ShapesOfRank(2),
          x_shape \in Shapes :
        LET theta == SimTensor(theta_shape, InputData("float32", numel(theta_shape), 0))
            x == SimTensor(x_shape, InputData("float32", numel(x_shape), 1))
        IN  /\ op' = "test_posterior_net_for_multi_d_x"
            /\ args' = [net |-> net, theta |-> theta, x |-> x]
            /\ ret' = test_posterior_net_for_multi_d_x(net, theta, x)
            /\ warns' = <<>>
            /\ calls' = <<>>

\* the caller has its outcome and is ready for its next call
Finish ==
    /\ op # "none"
    /\ op' = "none"
    /\ args' = NoArgs
    /\ ret' = Return("None")
    /\ warns' = <<>>
    /\ calls' = <<>>

Next ==
    \/ CallProcessX
    \/ CallProcessXAgain
    \/ CallCheckBatchedXShape
    \/ CallValidateThetaAndX
    \/ CallEnsureBatchedSimulator
    \/ CallReturnedSimulator
    \/ CallProcessPrior
    \/ CallProcessPriorSequence
    \/ CallCheckPriorBatchDims
    \/ CallCheckPriorAttributes
    \/ CallCheckSbiInputs
    \/ CallTestPosteriorNet
    \/ Finish

Spec == Init /\ [][Next]_vars

(***************************** process_x: claims ****************************)
Max(a, b) == IF a >= b THEN a ELSE b

\* C1: process_x is idempotent once a batch dimension exists: applied to the
\* tensor y that process_x(x, x_event_shape) returned, with the same
\* x_event_shape, it returns, and returns a tensor with the shape, dtype and
\* values of y.
C1_ProcessXIdempotent ==
    op = "process_x_again" => Returned(ret, args.x)

\* C1 witness: a second application on a tensor that got its batch axis from a
\* known event shape of rank 2.
C1_Witness ==
    /\ op = "process_x_again"
    /\ args.x_event_shape.some
    /\ Len(args.x_event_shape.v) = 2
    /\ args.x.shape = <<1>> \o args.x_event_shape.v
    /\ ret.kind = "return"

\* C2 (as stated): process_x raises ValueError whenever x_event_shape is known
\* and has more dimensions than the input x, rank-0 and rank-1 inputs included.
C2_ValueErrorOnRawRank ==
    (op = "process_x" /\ args.x_event_shape.some
        /\ Len(args.x_event_shape.v) > Len(args.x.shape))
    => Raised(ret, "ValueError")

\* C2 (amended): process_x raises ValueError exactly when x_event_shape is
\* known and has more dimensions than x after its promotion to at least two
\* dimensions, len(x_event_shape) > max(x.ndim, 2).  A rank-0 or rank-1 x with
\* a two-dimensional x_event_shape gets no ValueError: it is returned with
\* shape (1, 1, numel) when x_event_shape is (1, numel) and fails by assertion
\* otherwise.
C2_ValueErrorOnPromotedRank ==
    op = "process_x" =>
        /\ Raised(ret, "ValueError")
             <=> (args.x_event_shape.some
                  /\ Len(args.x_event_shape.v) > Max(Len(args.x.shape), 2))
        /\ (args.x_event_shape.some /\ Len(args.x_event_shape.v) = 2
                /\ Len(args.x.shape) <= 1)
             => IF args.x_event_shape.v = <<1, numel(args.x.shape)>>
                THEN ret.kind = "return"
                     /\ ret.val.shape = <<1, 1, numel(args.x.shape)>>
                ELSE Raised(ret, "AssertionError")

\* C2 witness: a rank-1 x against an event shape of rank 3 is refused.
C2_Witness ==
    /\ op = "process_x"
    /\ Len(args.x.shape) = 1
    /\ args.x_event_shape.some
    /\ Len(args.x_event_shape.v) = 3
    /\ Raised(ret, "ValueError")

\* C3: whenever process_x returns, the result has rank >= 2 and, if
\* x_event_shape is known, its shape without the leading axis equals
\* x_event_shape; a known x_event_shape that fits by rank and differs from
\* the trailing dimensions is an AssertionError; and an x of rank >= 2 whose
\* trailing dimensions equal x_event_shape is returned with its shape,
\* whatever the size of its leading axis.
C3_ResultShape ==
    op = "process_x" =>
        LET x == args.x
            es == args.x_event_shape
        IN  /\ ret.kind = "return" =>
                /\ Len(ret.val.shape) >= 2
                /\ es.some => Tail(ret.val.shape) = es.v
            /\ ret.kind = "raise" => ret.val \in {"ValueError", "AssertionError"}
            /\ (es.some /\ Len(x.shape) >= 2 /\ Len(x.shape) = Len(es.v) + 1) =>
                    IF Tail(x.shape) = es.v
                    THEN ret.kind = "return" /\ ret.val.shape = x.shape
                    ELSE Raised(ret, "AssertionError")
            /\ (es.some /\ Len(x.shape) >= 2 /\ Len(x.shape) = Len(es.v)) =>
                    IF x.shape = es.v
                    THEN ret.kind = "return" /\ ret.val.shape = <<1>> \o x.shape
                    ELSE Raised(ret, "AssertionError")

\* C3 witness: an x with a leading axis of size 2 is returned against a known
\* event shape.
C3_Witness ==
    /\ op = "process_x"
    /\ args.x_event_shape.some
    /\ ret.kind = "return"
    /\ Head(ret.val.shape) = 2

(***************************** validate_theta_and_x: claims *****************)
WarningsAbout(name) == {i \in 1..Len(warns) : warns[i].about = name}

\* C5 (as stated): given tensors theta and x that are both float32, have equal
\* leading dimension and reside on the same device as each other,
\* validate_theta_and_x returns the pair unchanged, with no warning.
C5_SameDeviceUnchanged ==
    (op = "validate_theta_and_x" /\ args.theta.is_tensor /\ args.x.is_tensor
        /\ args.theta.shape # <<>> /\ args.x.shape # <<>>
        /\ Head(args.theta.shape) = Head(args.x.shape)
        /\ args.theta.dtype = "float32" /\ args.x.dtype = "float32"
        /\ args.theta.device = args.x.device)
    => (Returned(ret, <<args.theta, args.x>>) /\ warns = <<>>)

\* C5 (amended): given tensors theta and x that are both float32, have equal
\* leading dimension and both reside on the device that data_device names
\* (str(t.device) == str(data_device)), validate_theta_and_x returns the pair
\* unchanged: the same tensors, on the same device, with no warning.  Two
\* tensors on a common device of another name draw one warning each and are
\* returned on data_device.  Given tensors whose leading dimensions differ it
\* raises an assertion error, returns nothing and warns of nothing.
C5_OnDataDeviceUnchanged ==
    (op = "validate_theta_and_x" /\ args.theta.is_tensor /\ args.x.is_tensor
        /\ args.theta.shape # <<>> /\ args.x.shape # <<>>)
    => /\ Head(args.theta.shape) # Head(args.x.shape)
            => (Raised(ret, "AssertionError") /\ warns = <<>>)
       /\ (Head(args.theta.shape) = Head(args.x.shape)
            /\ args.theta.dtype = "float32" /\ args.x.dtype = "float32"
            /\ args.theta.device = args.x.device)
            => IF args.theta.device = args.data_device
               THEN Returned(ret, <<args.theta, args.x>>) /\ warns = <<>>
               ELSE /\ ret.kind = "return"
                    /\ Len(warns) = 2
                    /\ \A i \in 1..2 :
                        ret.val[i].device = resolve(args.data_device, args.current_cuda)

\* C5 witness: a pair on cpu with data_device "cpu" is returned as it came.
C5_Witness ==
    /\ op = "validate_theta_and_x"
    /\ args.data_device = "cpu"
    /\ Returned(ret, <<args.theta, args.x>>)
    /\ args.theta.device = "cpu" /\ args.x.device = "cpu"
    /\ Head(args.theta.shape) = 2

\* C6: when validate_theta_and_x returns, both returned tensors reside on
\* data_device; each of theta and x whose device differs from data_device is
\* relocated and draws exactly one warning, naming data_device and
\* training_device; an input already on data_device is returned unrelocated
\* with no warning.
C6_RelocatedIffElsewhere ==
    (op = "validate_theta_and_x" /\ ret.kind = "return") =>
        LET d == resolve(args.data_device, args.current_cuda)
            Ok(name, in, out) ==
                /\ out.device = d
                /\ IF in.device # d
                   THEN /\ out.id # in.id
                        /\ Cardinality(WarningsAbout(name)) = 1
                        /\ \A i \in WarningsAbout(name) :
                            /\ warns[i].data_device = args.data_device
                            /\ warns[i].training_device = args.training_device
                   ELSE out = in /\ WarningsAbout(name) = {}
        IN  Ok("theta", args.theta, ret.val[1]) /\ Ok("x", args.x, ret.val[2])

(***************************** ensure_batched_simulator: claims *************)
\* C7: ensure_batched_simulator(simulator, prior) probes the simulator once,
\* with a batch of 2 prior samples, raises nothing, and returns the simulator
\* itself if and only if the probe raised no exception and its output has
\* rank > 1 and leading dimension 2; otherwise it returns the loop wrapper.
\* The loop wrapper fails by assertion, without calling the simulator, on an
\* input of rank <= 1; on a batch of n rows, each of which the simulator maps
\* to a tensor of one shape, it calls the simulator once on each row, in row
\* order, and returns the n outputs stacked along a new leading axis of size n.
C7_EnsureBatchedSimulator ==
    /\ op = "ensure_batched_simulator" =>
        /\ ret.kind = "return"
        /\ Len(calls) = 1
        /\ calls[1] = prior_sample(args.prior, 2)
        /\ Head(calls[1].shape) = 2
        /\ LET output == simulate(args.simulator, calls[1])
           IN  IF /\ output.kind = "return"
                  /\ output.val.is_tensor
                  /\ Len(output.val.shape) > 1
                  /\ output.val.shape[1] = 2
               THEN ret.val = Itself(args.simulator)
               ELSE ret.val = get_batch_loop_simulator(args.simulator)
    /\ (op = "call_simulator" /\ args.callable.wrapper = "batch_loop_simulator") =>
        LET theta == args.theta
            f == args.callable.simulator
            n == Head(theta.shape)
        IN  /\ Len(theta.shape) <= 1 => (Raised(ret, "AssertionError") /\ calls = <<>>)
            /\ (/\ Len(theta.shape) > 1
                /\ \A i \in 1..n :
                    /\ simulate(f, Row(theta, i)).kind = "return"
                    /\ simulate(f, Row(theta, i)).val.is_tensor
                    /\ simulate(f, Row(theta, i)).val.shape
                         = simulate(f, Row(theta, 1)).val.shape)
               => /\ Len(calls) = n
                  /\ \A i \in 1..n : calls[i] = Row(theta, i)
                  /\ ret.kind = "return"
                  /\ ret.val.shape = <<n>> \o simulate(f, Row(theta, 1)).val.shape
                  /\ \A i \in 1..n : Row(ret.val, i) = simulate(f, Row(theta, i)).val

\* C7 witness: the wrapper around a simulator of one parameter vector
\* (theta.sum()) has returned the stacked outputs of a batch of 2 rows.
C7_Witness ==
    /\ op = "call_simulator"
    /\ args.callable = get_batch_loop_simulator("sum")
    /\ args.theta.shape = <<2, 2>>
    /\ ret.kind = "return"
    /\ ret.val.shape = <<2>>
    /\ Len(calls) = 2

(***************************** process_prior: claims ************************)
IsUniformOfMultiplicityOne(prior) ==
    /\ prior.kind = "distribution"
    /\ prior.class = "Uniform"
    /\ numel(prior.batch_shape) = 1

\* C8 (as stated): for any one-dimensional Uniform prior with batch
\* multiplicity 1, a Uniform built from scalar bounds included, process_prior
\* returns a BoxUniform prior with the input's low and high bounds and emits
\* exactly one warning.
C8_UniformBecomesBoxUniform ==
    (op = "process_prior" /\ IsUniformOfMultiplicityOne(args.prior)) =>
        /\ ret.kind = "return"
        /\ ret.val.prior.class = "BoxUniform"
        /\ ret.val.prior.low = args.prior.low
        /\ ret.val.prior.high = args.prior.high
        /\ Len(warns) = 1

\* C8 (amended): for any Uniform prior with batch multiplicity 1 and a
\* non-empty batch_shape, process_prior returns a BoxUniform prior with the
\* input's low and high bounds (under the dtype or log_prob-shape wrapper that
\* the later steps may add) and emits exactly one warning, the cast's.  A
\* Uniform built from scalar bounds has an empty batch_shape and a scalar
\* sample(): it is rejected with the scalar-prior ValueError before the cast,
\* without any warning.
C8_NonScalarUniformBecomesBoxUniform ==
    (op = "process_prior" /\ IsUniformOfMultiplicityOne(args.prior)) =>
        IF args.prior.batch_shape = <<>>
        THEN Raised(ret, "ValueError:scalar_prior") /\ warns = <<>>
        ELSE /\ ret.kind = "return"
             /\ ret.val.prior.class = "BoxUniform"
             /\ ret.val.prior.low = args.prior.low
             /\ ret.val.prior.high = args.prior.high
             /\ ret.val.prior.event_shape = <<1>>
             /\ ret.val.theta_numel = 1
             /\ warns = <<"Casting 1D Uniform prior to BoxUniform">>

\* C8 witness: Uniform(zeros(1), ones(1)) came back as a BoxUniform.
C8_Witness ==
    /\ op = "process_prior"
    /\ IsUniformOfMultiplicityOne(args.prior)
    /\ args.prior.batch_shape = <<1>>
    /\ ret.kind = "return"
    /\ ret.val.prior.class = "BoxUniform"
    /\ Len(warns) = 1

\* a prior whose sample(), called with no arguments, returns a rank-0 value
IsScalarPrior(prior) ==
    /\ prior.kind \in {"distribution", "custom"}
    /\ prior.kind = "custom" => (prior.defect = "none" /\ prior.returns # "list")
    /\ sample_shape_of(prior, <<>>) = <<>>

\* the scalar prior at position i is the first component that fails
FirstFailureIsScalar(priors, i) ==
    /\ IsScalarPrior(priors[i])
    /\ \A j \in 1..(i - 1) : process_one_prior(priors[j]).out.kind = "return"

\* C9 (as stated): for any prior whose sample() is scalar, process_prior fails
\* with the scalar-prior ValueError, whichever path the prior takes: a
\* Distribution, a custom object, or an element of a sequence.
C9_ScalarPriorValueError ==
    /\ (op = "process_prior" /\ IsScalarPrior(args.prior))
        => Raised(ret, "ValueError:scalar_prior")
    /\ (op = "process_prior_sequence"
            /\ \E i \in 1..Len(args.prior) : FirstFailureIsScalar(args.prior, i))
        => Raised(ret, "ValueError:scalar_prior")

\* C9 (amended): for any torch Distribution whose sample() is scalar,
\* process_prior fails with the scalar-prior ValueError, and so does
\* process_prior on a sequence in which such a Distribution is the first
\* element to fail.  A custom prior never gets that error: with scalar samples
\* its sample((1,)) has rank 1 and process_custom_prior fails the
\* batch-behaviour assertion (AssertionError) instead.
C9_ScalarDistributionValueError ==
    /\ op = "process_prior" =>
        /\ (args.prior.kind = "distribution" /\ IsScalarPrior(args.prior))
            => (Raised(ret, "ValueError:scalar_prior") /\ warns = <<>>)
        /\ Raised(ret, "ValueError:scalar_prior")
            => (args.prior.kind = "distribution" /\ IsScalarPrior(args.prior))
        /\ (args.prior.kind = "custom" /\ IsScalarPrior(args.prior))
            => Raised(ret, "AssertionError:batch_behavior")
    /\ op = "process_prior_sequence" =>
        \A i \in 1..Len(args.prior) :
            FirstFailureIsScalar(args.prior, i) =>
                IF args.prior[i].kind = "distribution"
                THEN Raised(ret, "ValueError:scalar_prior") /\ Len(calls) = i
                ELSE Raised(ret, "AssertionError:batch_behavior")

\* C9 witness: a scalar Distribution in second place of a sequence was rejected
\* with the scalar-prior ValueError.
C9_Witness ==
    /\ op = "process_prior_sequence"
    /\ Len(args.prior) = 2
    /\ args.prior[2].kind = "distribution"
    /\ FirstFailureIsScalar(args.prior, 2)
    /\ Raised(ret, "ValueError:scalar_prior")

RECURSIVE SumThetaNumel(_)
SumThetaNumel(priors) ==
    IF priors = <<>> THEN 0
    ELSE process_one_prior(Head(priors)).out.val.theta_numel + SumThetaNumel(Tail(priors))

\* C10: process_prior on a sequence of n >= 1 priors processes the components
\* first, in sequence order.  If every component can be processed, it returns
\* the joint MultipleIndependent prior: theta_numel is the sum of the
\* components' theta_numel and one sample has shape (theta_numel,), the
\* components' samples concatenated.  Otherwise the first failing component's
\* exception ends the call and no later component is processed.
C10_SequenceJointPrior ==
    op = "process_prior_sequence" =>
        LET priors == args.prior
            n == Len(priors)
            failing == {i \in 1..n : process_one_prior(priors[i]).out.kind = "raise"}
        IN  /\ n >= 1
            /\ calls = [i \in 1..Len(calls) |-> i]
            /\ warns # <<>> /\ warns[1] = "Prior was provided as a sequence"
            /\ IF failing = {}
               THEN /\ calls = [i \in 1..n |-> i]
                    /\ ret.kind = "return"
                    /\ ret.val.prior.class = "MultipleIndependent"
                    /\ ret.val.theta_numel = SumThetaNumel(priors)
                    /\ sample_shape_of(ret.val.prior, <<>>) = <<SumThetaNumel(priors)>>
                    /\ ret.val.prior_returns_numpy = FALSE
               ELSE \E k \in failing :
                    /\ \A j \in failing : k <= j
                    /\ Len(calls) = k
                    /\ Raised(ret, process_one_prior(priors[k]).out.val)

\* C10 witness: a sequence of a 1D Uniform and a 2D prior gave a joint prior
\* over 3 parameters.
C10_Witness ==
    /\ op = "process_prior_sequence"
    /\ Len(args.prior) = 2
    /\ args.prior[1].kind = "distribution" /\ args.prior[1].class = "Uniform"
    /\ ret.kind = "return"
    /\ ret.val.theta_numel = 3
    /\ Len(warns) = 2

(***************************** check_for_possibly_batched_x_shape: claims ***)
\* C4: check_for_possibly_batched_x_shape(x_shape) raises ValueError if and
\* only if x_shape has rank >= 2 and its leading dimension is greater than 1.
C4_RaisesIffBatched ==
    op = "check_for_possibly_batched_x_shape" =>
        (Raised(ret, "ValueError")
            <=> (Len(args.x_shape) >= 2 /\ Head(args.x_shape) > 1))


(***************************** prior checks: claims **************************)
\* C11: check_prior_batch_dims raises ValueError if and only if the prior's
\* batch_shape.numel() is greater than 1 (it raises for 2, passes for 1 and for
\* an empty batch shape), and process_prior on a Distribution with batch
\* multiplicity > 1 that passes the batch-behaviour check fails with that
\* ValueError: no prior comes back, wrapped or not, and nothing was cast.
C11_BatchDimsValueError ==
    /\ op = "check_prior_batch_dims" =>
        /\ Raised(ret, "ValueError:batch_shape") <=> numel(args.prior.batch_shape) > 1
        /\ ~Raised(ret, "ValueError:batch_shape") => Returned(ret, "None")
        /\ numel(args.prior.batch_shape) = 2 => ret.kind = "raise"
        /\ args.prior.batch_shape \in {<<>>, <<1>>} => ret.kind = "return"
    /\ (/\ op = "process_prior"
        /\ args.prior.kind = "distribution"
        /\ numel(args.prior.batch_shape) > 1
        /\ check_prior_batch_behavior(args.prior) = "ok")
        => (Raised(ret, "ValueError:batch_shape") /\ warns = <<>>)

\* C11 witness: process_prior on a float64 Distribution with batch_shape (2,),
\* which passes the batch-behaviour check and would need the dtype wrapper,
\* failed with the batch-shape ValueError.
C11_Witness ==
    /\ op = "process_prior"
    /\ args.prior.kind = "distribution"
    /\ args.prior.batch_shape = <<2>>
    /\ args.prior.dtype = "float64"
    /\ check_prior_batch_behavior(args.prior) = "ok"
    /\ Raised(ret, "ValueError:batch_shape")

\* the prior's sample((2,)) and log_prob(theta) both return
BothCallsSucceed(prior) ==
    prior.defect \notin {"no_sample", "sample_type_error", "sample_error",
                         "no_log_prob", "log_prob_type_error", "log_prob_error"}

\* C12 (as stated): check_prior_attributes distinguishes three failure kinds
\* for both methods: AttributeError when sample or log_prob is missing,
\* TypeError when the call of sample or of log_prob raises TypeError,
\* ValueError for every other exception of sample((2,)) or log_prob(theta);
\* when both calls succeed it raises nothing.
C12_ThreeKindsForBothMethods ==
    op = "check_prior_attributes" =>
        /\ args.prior.defect = "no_sample" => Raised(ret, "AttributeError:sample")
        /\ args.prior.defect = "no_log_prob" => Raised(ret, "AttributeError:log_prob")
        /\ args.prior.defect = "sample_type_error" => Raised(ret, "TypeError:sample")
        /\ args.prior.defect = "log_prob_type_error" => Raised(ret, "TypeError:log_prob")
        /\ args.prior.defect = "sample_error" => Raised(ret, "ValueError:sample")
        /\ args.prior.defect = "log_prob_error" => Raised(ret, "ValueError:log_prob")
        /\ BothCallsSucceed(args.prior) => Returned(ret, "None")

\* C12 (amended): check_prior_attributes raises AttributeError when sample or
\* log_prob is missing; for sample((2,)) it raises TypeError when the call
\* raises TypeError and ValueError for every other exception; for
\* log_prob(theta) it raises ValueError for every exception other than
\* AttributeError, a TypeError included, so the call never ends in a TypeError
\* that log_prob caused; when both calls succeed it raises nothing.
C12_TypeErrorOnlyForSample ==
    op = "check_prior_attributes" =>
        /\ args.prior.defect = "no_sample" => Raised(ret, "AttributeError:sample")
        /\ args.prior.defect = "no_log_prob" => Raised(ret, "AttributeError:log_prob")
        /\ args.prior.defect = "sample_type_error" => Raised(ret, "TypeError:sample")
        /\ args.prior.defect = "sample_error" => Raised(ret, "ValueError:sample")
        /\ args.prior.defect \in {"log_prob_type_error", "log_prob_error"}
            => Raised(ret, "ValueError:log_prob")
        /\ Raised(ret, "TypeError:sample") => args.prior.defect = "sample_type_error"
        /\ ~Raised(ret, "TypeError:log_prob")
        /\ BothCallsSucceed(args.prior) <=> Returned(ret, "None")

\* C12 witness: a prior whose log_prob raises TypeError got a ValueError.
C12_Witness ==
    /\ op = "check_prior_attributes"
    /\ args.prior.defect = "log_prob_type_error"
    /\ Raised(ret, "ValueError:log_prob")

(***************************** process_custom_prior: claims ******************)
\* a custom prior with both methods, sampling batches of vectors
IsBatchedCustomPrior(prior) ==
    /\ prior.kind = "custom"
    /\ prior.defect = "none"
    /\ prior.sample_shape # <<>>

\* C13: process_prior on a custom prior (not a sequence, not a Distribution,
\* not a scipy object) accepts sample/log_prob returns that are both tensors
\* (prior_returns_numpy = FALSE) or both ndarrays (prior_returns_numpy = TRUE),
\* and fails with TypeError for any other return type: returns without a shape
\* attribute (lists) and mixed tensor/ndarray returns.
C13_CustomReturnTypes ==
    (op = "process_prior" /\ IsBatchedCustomPrior(args.prior)) =>
        CASE args.prior.returns = "tensor" ->
                ret.kind = "return" /\ ret.val.prior_returns_numpy = FALSE
          [] args.prior.returns = "ndarray" ->
                ret.kind = "return" /\ ret.val.prior_returns_numpy = TRUE
          [] OTHER -> Raised(ret, "TypeError:return_type")

(***************************** check_sbi_inputs: claims **********************)
\* the positions in `calls` of the calls of fn
CallsOf(fn) == {i \in 1..Len(calls) : calls[i].fn = fn}

\* a value with a leading dimension, or with no shape at all
HasLeadingDimension(value) == HasShape(value) => value.shape # <<>>

\* C14: check_sbi_inputs(simulator, prior) runs the prior support check first
\* and does not call the simulator if it fails; it then draws a batch of
\* exactly one parameter vector and calls the simulator exactly once on it; it
\* fails via assertion whenever theta or the simulator output is not a tensor,
\* and whenever the leading dimension of theta or of the simulator output
\* differs from 1; otherwise it returns nothing and raises nothing.  (Read for
\* a simulator that returns, and for values that have a leading dimension.)
C14_CheckSbiInputs ==
    op = "check_sbi_inputs" =>
        LET theta == sbi_prior_sample(args.prior, 1)
            simulation == simulate(args.simulator, theta)
        IN  /\ calls[1].fn = "check_prior_support"
            /\ check_prior_support(args.prior) # "ok" =>
                /\ Raised(ret, "NotImplementedError")
                /\ CallsOf("simulator") = {}
            /\ (check_prior_support(args.prior) = "ok" /\ ~HasShape(theta)) =>
                Raised(ret, "AssertionError")
            /\ (/\ check_prior_support(args.prior) = "ok"
                /\ HasShape(theta) /\ theta.shape # <<>>
                /\ simulation.kind = "return"
                /\ HasLeadingDimension(simulation.val)) =>
                /\ \E i \in 1..Len(calls) :
                    /\ CallsOf("prior.sample") = {i}
                    /\ calls[i].arg = <<1>>
                /\ \E i \in 1..Len(calls) :
                    /\ CallsOf("simulator") = {i}
                    /\ calls[i].arg = theta
                /\ IF \/ ~theta.is_tensor
                      \/ ~simulation.val.is_tensor
                      \/ Head(theta.shape) # 1
                      \/ Head(simulation.val.shape) # 1
                   THEN Raised(ret, "AssertionError")
                   ELSE Returned(ret, "None")

(***************************** test_posterior_net_for_multi_d_x: claims ******)
\* net.log_prob(theta[:, :2], condition=x[:2]) is called and raises
LogProbFails(net) == net \in {"RuntimeError", "ValueError"}

\* C15: test_posterior_net_for_multi_d_x: when the net's log-density call fails
\* and x is multidimensional (x.ndim >= 3 including batch), the error raised
\* carries a debug hint naming the dimensionality of x (x.ndim - 1); when
\* x.ndim <= 2 the original error is re-raised unchanged (same exception, same
\* message); when the net has no log_prob method or the call succeeds, nothing
\* is raised.  (Read for a theta and an x that can be sliced.)
C15_HintOrUnchanged ==
    (/\ op = "test_posterior_net_for_multi_d_x"
     /\ Len(args.theta.shape) >= 2
     /\ Len(args.x.shape) >= 1) =>
        LET ndim == Len(args.x.shape)
        IN  /\ (LogProbFails(args.net) /\ ndim >= 3) =>
                /\ ret.kind = "raise"
                /\ ret.val.message = Message("Debug hint", ndim - 1)
            /\ (LogProbFails(args.net) /\ ndim <= 2) =>
                Raised(ret, log_prob_error(args.net))
            /\ ~LogProbFails(args.net) => Returned(ret, "None")

(***************************** process_prior's output: claims ****************)
HasWrapper(prior, wrapper) ==
    \E i \in 1..Len(prior.wrappers) : prior.wrappers[i] = wrapper

ReturnsNumpy(prior) ==
    /\ process_one_prior(prior).out.kind = "return"
    /\ process_one_prior(prior).out.val.prior_returns_numpy

\* C17: on the sequence path of process_prior the returned prior_returns_numpy
\* flag is always FALSE, whatever the flags computed for the components: a
\* sequence with a custom prior that returns ndarrays, whose own processing
\* yields prior_returns_numpy = TRUE, still gives FALSE, because each
\* component's flag is discarded and the joint prior is processed as a
\* Distribution.
C17_SequenceFlagIsFalse ==
    /\ (op = "process_prior_sequence" /\ ret.kind = "return") =>
        /\ ret.val.prior_returns_numpy = FALSE
        /\ ret.val.prior.kind = "distribution"
        /\ ret.val.prior.class = "MultipleIndependent"
    /\ (op = "process_prior" /\ ret.kind = "return") =>
        (ret.val.prior_returns_numpy
            <=> (args.prior.kind = "custom" /\ args.prior.returns = "ndarray"))

\* C17 witness: a sequence with an ndarray-returning custom prior, whose own
\* flag is TRUE, came back with the flag FALSE.
C17_Witness ==
    /\ op = "process_prior_sequence"
    /\ \E i \in 1..Len(args.prior) :
        /\ args.prior[i].kind = "custom"
        /\ args.prior[i].returns = "ndarray"
        /\ ReturnsNumpy(args.prior[i])
    /\ ret.kind = "return"
    /\ ret.val.prior_returns_numpy = FALSE

====
